---- MODULE Spec2Model ----
(***************************************************************************)
(* A model of the BM25 Retriever of src/src/retriever.rs: construction,    *)
(* index (tokenize, statistics, triplets, column-compressed matrix),       *)
(* top_n (accumulate, partial selection) and top_n_batched.                *)
(*                                                                         *)
(* Conventions.  TermIds and DocIds are 0-based as in the code; TLA+       *)
(* sequences are 1-based, so the array cell x[i] of the code is x[i + 1]   *)
(* here.  f32 values are fixed-point integers: k1 and b in hundredths,     *)
(* logarithms and scores in thousandths, every division truncated.  A raw  *)
(* text is the sequence of its surface tokens.                             *)
(***************************************************************************)
EXTENDS Integers, Sequences, FiniteSets, TLC

\* ------------------------------------------------------------------ bounds

\* The most documents one index call is given.
MaxDocs == 3

\* The largest n a query asks for.
MaxN == 3

\* The most queries one top_n_batched call is given.
MaxBatch == 2

\* The raw documents index is given (sequences of surface tokens).
Docs == { <<"a">>, <<"b", "c", "b">> }

\* The queries; "z" is in no document, so it is never in the vocabulary.
Queries == { <<>>, <<"z">>, <<"a">>, <<"b", "b">>, <<"c", "z", "a">> }

\* The (k1, b) pairs a Retriever is constructed with, in hundredths.
Params == { [k1 |-> 150, b |-> 75] }

RECURSIVE SeqsUpTo(_, _)
SeqsUpTo(S, len) ==
    IF len = 0 THEN { <<>> }
    ELSE LET shorter == SeqsUpTo(S, len - 1)
         IN  shorter \cup { Append(s, x) : s \in { t \in shorter : Len(t) = len - 1 }, x \in S }

Corpora == SeqsUpTo(Docs, MaxDocs)

\* The queries batches are made of.
BatchQueries == { <<"a">>, <<"z", "c">> }

Batches == SeqsUpTo(BatchQueries, MaxBatch)

\* ----------------------------------------------------------------- helpers

Min(x, y) == IF x <= y THEN x ELSE y

RECURSIVE Sum(_)
Sum(s) == IF s = <<>> THEN 0 ELSE Head(s) + Sum(Tail(s))

\* A sequence given by a rule, as the array of its values.
Array(f) == f \o <<>>

\* A map given by a rule, as the table of its values.
Map(f) == f @@ <<>>

Zeros(len) == Array([j \in 1..len |-> 0])

\* The permutations of a finite set, as sequences.
Perms(S) ==
    { p \in [1..Cardinality(S) -> S] : \A i, j \in 1..Cardinality(S) : i # j => p[i] # p[j] }

\* (x as f32).ln() in thousandths, for the counts the model reaches.
Ln(x) ==
    CASE x = 1 -> 0
      [] x = 2 -> 693
      [] x = 3 -> 1099
      [] x = 4 -> 1386
      [] x = 5 -> 1609
      [] x = 6 -> 1792
      [] OTHER -> 1946

\* -------------------------------------------------------------- tokenizer

RECURSIVE Flatten(_)
Flatten(texts) == IF texts = <<>> THEN <<>> ELSE Head(texts) \o Flatten(Tail(texts))

RECURSIVE FirstSeen(_, _)
FirstSeen(ws, acc) ==
    IF ws = <<>> THEN acc
    ELSE FirstSeen(Tail(ws),
                    IF \E i \in DOMAIN acc : acc[i] = Head(ws) THEN acc
                    ELSE Append(acc, Head(ws)))

\* Tokenizer::perform: TermIds are dense in [0, V), assigned in order of first
\* appearance; corpus is aligned with texts.
TokenizerPerform(texts) ==
    LET seen  == FirstSeen(Flatten(texts), <<>>)
        vocab == Map([w \in { seen[i] : i \in DOMAIN seen } |->
                        (CHOOSE i \in DOMAIN seen : seen[i] = w) - 1])
    IN  [corpus |-> Array([d \in DOMAIN texts |->
                            Array([j \in DOMAIN texts[d] |-> vocab[texts[d][j]]])]),
         vocab  |-> vocab]

\* Tokenizer::perform_simple: the surface tokens of one raw string.
TokenizerPerformSimple(query) == query

\* ------------------------------------------------------ statistics builder

\* The per-document tally term_count (lines 96-99).
TermCount(terms) ==
    Map([t \in { terms[j] : j \in DOMAIN terms } |->
            Cardinality({ j \in DOMAIN terms : terms[j] = t })])

\* The iteration orders the per-document HashMaps can have: one permutation of
\* each document's distinct terms.
RECURSIVE HashOrders(_)
HashOrders(corpus) ==
    IF corpus = <<>> THEN { <<>> }
    ELSE { <<p>> \o rest : p \in Perms(DOMAIN TermCount(Head(corpus))),
                           rest \in HashOrders(Tail(corpus)) }

\* What a document adds to doc_frequencies for one of its distinct terms.
DfIncrementPerOccurrence(term_count, t) == term_count[t]

DfIncrement(term_count, t) == 1

\* One iteration of the loop over the corpus (lines 95-109).
FrequenciesStep(acc, terms, keys) ==
    LET term_count == TermCount(terms)
        df  == acc.doc_frequencies
        df2 == Map([t \in DOMAIN df \cup DOMAIN term_count |->
                      IF t \notin DOMAIN term_count THEN df[t]
                      ELSE IF t \in DOMAIN df THEN df[t] + DfIncrement(term_count, t)
                      ELSE DfIncrement(term_count, t)])
        tf  == [terms |-> keys, tf |-> Array([j \in DOMAIN keys |-> term_count[keys[j]]])]
    IN  [doc_frequencies  |-> df2,
         term_frequencies |-> Append(acc.term_frequencies, tf)]

RECURSIVE FrequenciesLoop(_, _, _)
FrequenciesLoop(acc, corpus, ord) ==
    IF corpus = <<>> THEN acc
    ELSE FrequenciesLoop(FrequenciesStep(acc, Head(corpus), Head(ord)),
                         Tail(corpus), Tail(ord))

ComputeFrequencies(corpus, ord) ==
    FrequenciesLoop([doc_frequencies |-> <<>>, term_frequencies |-> <<>>], corpus, ord)

ComputeIdfArray(n_terms, n_docs, doc_frequencies) ==
    Array([t \in 1..n_terms |->
            IF (t - 1) \in DOMAIN doc_frequencies
            THEN Ln(n_docs) - Ln(doc_frequencies[t - 1])
            ELSE 0])

\* ------------------------------------------------- scoring matrix assembler

RECURSIVE SumValues(_)
SumValues(f) ==
    IF DOMAIN f = {} THEN 0
    ELSE LET t == CHOOSE x \in DOMAIN f : TRUE
         IN  f[t] + SumValues(Map([x \in DOMAIN f \ {t} |-> f[x]]))

\* tfc for one posting (line 144).  avg_doc_len = avg.sum / avg.len is kept as
\* the fraction; numerator and denominator are both scaled by 100 * 100 * avg.sum.
Tfc(k1, b, tf, doc_length, avg) ==
    (tf * (k1 + 100) * 100 * avg.sum * 1000)
        \div (tf * 10000 * avg.sum + k1 * ((100 - b) * avg.sum + b * doc_length * avg.len))

\* slice_mut(s![start..end]).assign(vals)
AssignSlice(arr, start, vals) ==
    Array([j \in DOMAIN arr |->
            IF start < j /\ j <= start + Len(vals) THEN vals[j - start] ELSE arr[j]])

\* One iteration of the loop over term_frequencies (lines 141-156); i is the
\* 0-based document index.
PrepareStep(acc, i, k1, b, idf_array, terms, tf_array, doc_length, avg) ==
    LET score == Array([j \in DOMAIN terms |->
                    (idf_array[terms[j] + 1] * Tfc(k1, b, tf_array[j], doc_length, avg))
                        \div 1000])
        start == acc.step
        end   == start + Len(score)
    IN  [rows   |-> AssignSlice(acc.rows, start, Array([j \in DOMAIN terms |-> i])),
         cols   |-> AssignSlice(acc.cols, start, terms),
         scores |-> AssignSlice(acc.scores, start, score),
         size   |-> acc.size,
         step   |-> end]

RECURSIVE PrepareLoop(_, _, _, _, _, _, _, _)
PrepareLoop(acc, i, k1, b, idf_array, term_frequencies, doc_lengths, avg) ==
    IF i = Len(term_frequencies) THEN acc
    ELSE PrepareLoop(PrepareStep(acc, i, k1, b, idf_array,
                                 term_frequencies[i + 1].terms, term_frequencies[i + 1].tf,
                                 doc_lengths[i + 1], avg),
                     i + 1, k1, b, idf_array, term_frequencies, doc_lengths, avg)

\* prepare_sparse_matrix.  The result keeps the locals size and step beside the
\* three buffers the code returns.
PrepareSparseMatrix(k1, b, idf_array, doc_frequencies, term_frequencies, doc_lengths, avg) ==
    LET size == SumValues(doc_frequencies)
    IN  PrepareLoop([rows |-> Zeros(size), cols |-> Zeros(size), scores |-> Zeros(size),
                     size |-> size, step |-> 0],
                    0, k1, b, idf_array, term_frequencies, doc_lengths, avg)

\* CsMat::empty(CSC, 0)
EmptyCsc == [shape |-> <<0, 0>>, indptr |-> <<0>>, indices |-> <<>>, data |-> <<>>]

\* The triplet positions holding an entry of row d, column t.
Positions(rows, cols, d, t) == { p \in DOMAIN rows : rows[p] = d /\ cols[p] = t }

RECURSIVE SumAt(_, _)
SumAt(scores, ps) ==
    IF ps = {} THEN 0
    ELSE LET p == CHOOSE x \in ps : TRUE IN scores[p] + SumAt(scores, ps \ {p})

\* The stored rows of column t, ascending from row d on.
RECURSIVE ColumnRows(_, _, _, _, _)
ColumnRows(rows, cols, n_rows, t, d) ==
    IF d >= n_rows THEN <<>>
    ELSE (IF Positions(rows, cols, d, t) # {} THEN <<d>> ELSE <<>>)
            \o ColumnRows(rows, cols, n_rows, t, d + 1)

ColumnOrder(rows, cols, n_rows, t) == ColumnRows(rows, cols, n_rows, t, 0)

\* TriMat::from_triplets(shape, rows, cols, data).to_csc(): columns in order,
\* rows ascending within a column, duplicate positions summed.
RECURSIVE CscLoop(_, _, _, _, _, _)
CscLoop(acc, t, shape, rows, cols, scores) ==
    IF t = shape[2] THEN acc
    ELSE LET rs == ColumnOrder(rows, cols, shape[1], t)
         IN  CscLoop([shape   |-> shape,
                      indptr  |-> Append(acc.indptr, Len(acc.indices) + Len(rs)),
                      indices |-> acc.indices \o rs,
                      data    |-> acc.data \o
                                  Array([j \in DOMAIN rs |->
                                          SumAt(scores, Positions(rows, cols, rs[j], t))])],
                     t + 1, shape, rows, cols, scores)

ToCsc(shape, rows, cols, scores) ==
    CscLoop([shape |-> shape, indptr |-> <<0>>, indices |-> <<>>, data |-> <<>>],
            0, shape, rows, cols, scores)

\* ------------------------------------------------------------------ index

\* Retriever::new
New(k1, b) ==
    [k1 |-> k1, b |-> b, vocab |-> <<>>, n_docs |-> 0, score_matrix |-> EmptyCsc]

\* The locals of no build.
NoBuild == [doc_frequencies |-> <<>>, size |-> 0, step |-> 0, cells |-> {}]

\* A build that adds the new documents to the count of the old ones.
BuildIndexAppending(self, out, ord) ==
    LET freq        == ComputeFrequencies(out.corpus, ord)
        doc_lengths == Array([d \in DOMAIN out.corpus |-> Len(out.corpus[d])])
        avg         == [sum |-> Sum(doc_lengths), len |-> Len(doc_lengths)]
        n_docs      == self.n_docs + Len(doc_lengths)
        n_terms     == Cardinality(DOMAIN out.vocab)
        idf_array   == ComputeIdfArray(n_terms, n_docs, freq.doc_frequencies)
        params      == PrepareSparseMatrix(self.k1, self.b, idf_array, freq.doc_frequencies,
                                           freq.term_frequencies, doc_lengths, avg)
    IN  [self   |-> [k1 |-> self.k1, b |-> self.b, vocab |-> out.vocab, n_docs |-> n_docs,
                     score_matrix |-> ToCsc(<<n_docs, n_terms>>,
                                            params.rows, params.cols, params.scores)],
         locals |-> [doc_frequencies |-> freq.doc_frequencies, size |-> params.size,
                     step |-> params.step,
                     cells |-> { <<params.rows[p], params.cols[p]>> : p \in DOMAIN params.rows }]]

\* internal_index after the tokenizer has returned (lines 69-88).  locals keeps,
\* of the build's locals, doc_frequencies, the buffers' size, the final write
\* offset and the (row, col) cells the buffers hold.
BuildIndex(self, out, ord) ==
    LET freq        == ComputeFrequencies(out.corpus, ord)
        doc_lengths == Array([d \in DOMAIN out.corpus |-> Len(out.corpus[d])])
        avg         == [sum |-> Sum(doc_lengths), len |-> Len(doc_lengths)]
        n_docs      == Len(doc_lengths)
        n_terms     == Cardinality(DOMAIN out.vocab)
        idf_array   == ComputeIdfArray(n_terms, n_docs, freq.doc_frequencies)
        params      == PrepareSparseMatrix(self.k1, self.b, idf_array, freq.doc_frequencies,
                                           freq.term_frequencies, doc_lengths, avg)
    IN  [self   |-> [k1 |-> self.k1, b |-> self.b, vocab |-> out.vocab, n_docs |-> n_docs,
                     score_matrix |-> ToCsc(<<n_docs, n_terms>>,
                                            params.rows, params.cols, params.scores)],
         locals |-> [doc_frequencies |-> freq.doc_frequencies, size |-> params.size,
                     step |-> params.step,
                     cells |-> { <<params.rows[p], params.cols[p]>> : p \in DOMAIN params.rows }]]

\* A build that empties the Retriever before it tokenizes.
InternalIndexClearFirst(self, texts, ord, tokenizer_ok) ==
    IF tokenizer_ok THEN BuildIndex(self, TokenizerPerform(texts), ord)
    ELSE [self |-> New(self.k1, self.b), locals |-> NoBuild]

\* internal_index.  The tokenizer runs first (line 68); when it fails nothing has
\* been assigned yet.
InternalIndex(self, texts, ord, tokenizer_ok) ==
    IF tokenizer_ok THEN BuildIndex(self, TokenizerPerform(texts), ord)
    ELSE [self |-> self, locals |-> NoBuild]

\* --------------------------------------------------------- query evaluator

\* A failed call: the panic unwinds to the caller and nothing is returned.
Panic == [ok |-> FALSE, pairs |-> <<>>]

\* A lookup that takes a missing token for term 0.
RECURSIVE QueryIndicesMissAsZero(_, _)
QueryIndicesMissAsZero(vocab, tokens) ==
    IF tokens = <<>> THEN <<>>
    ELSE <<IF Head(tokens) \in DOMAIN vocab THEN vocab[Head(tokens)] ELSE 0>>
            \o QueryIndicesMissAsZero(vocab, Tail(tokens))

\* The query's terms with each term kept once.
RECURSIVE QueryIndicesDeduplicated(_, _)
QueryIndicesDeduplicated(vocab, tokens) ==
    IF tokens = <<>> THEN <<>>
    ELSE LET rest == QueryIndicesDeduplicated(vocab, Tail(tokens))
         IN  (IF Head(tokens) \in DOMAIN vocab
                 /\ \A j \in DOMAIN rest : rest[j] # vocab[Head(tokens)]
              THEN <<vocab[Head(tokens)]>> ELSE <<>>) \o rest

\* filter_map(|term| self.vocab.get(term).cloned()) (lines 164-167)
RECURSIVE QueryIndices(_, _)
QueryIndices(vocab, tokens) ==
    IF tokens = <<>> THEN <<>>
    ELSE (IF Head(tokens) \in DOMAIN vocab THEN <<vocab[Head(tokens)]>> ELSE <<>>)
            \o QueryIndices(vocab, Tail(tokens))

\* The loop over query_indices (lines 176-187): the column of term i is the
\* slice indptr[i]..indptr[i + 1] of indices and data.
RECURSIVE Accumulate(_, _, _)
Accumulate(scores, m, query_indices) ==
    IF query_indices = <<>> THEN scores
    ELSE LET i     == Head(query_indices)
             start == m.indptr[i + 1]
             end   == m.indptr[i + 2]
             slice == (start + 1)..end
         IN  Accumulate(Array([d \in DOMAIN scores |->
                                scores[d] + SumAt(m.data, { p \in slice : m.indices[p] = d - 1 })]),
                        m, Tail(query_indices))

\* The comparator as written with the operands the other way round.
CompareAscending(x, y) ==
    IF x[2] < y[2] THEN -1 ELSE IF x[2] > y[2] THEN 1 ELSE 0

\* |a, b| b.1.partial_cmp(&a.1).unwrap() (line 196): -1 is Less, x sorts first.
Compare(x, y) ==
    IF y[2] < x[2] THEN -1 ELSE IF y[2] > x[2] THEN 1 ELSE 0

\* order_stat::kth_by(array, k, cmp) for k < len: the rearrangements of array that
\* have the k-th element (0-based) of the sorted order at position k, nothing
\* greater before it and nothing less after it.  Which one is the library's choice.
KthBy(array, k) ==
    { Array([j \in DOMAIN array |-> array[p[j]]]) : p \in
        { q \in Perms(DOMAIN array) :
            /\ \A j \in 1..k : Compare(array[q[j]], array[q[k + 1]]) <= 0
            /\ \A j \in (k + 2)..Len(array) : Compare(array[q[k + 1]], array[q[j]]) <= 0 } }

\* The number of pairs asked of the selection with n left unclamped.
SelectCountUnclamped(n, n_docs) == n

\* n.min(self.n_docs) (line 194)
SelectCount(n, n_docs) == Min(n, n_docs)

\* A top_n that takes the first k pairs without selecting.
InternalTopNKeepsOrder(self, query, n) ==
    LET query_indices  == QueryIndices(self.vocab, TokenizerPerformSimple(query))
        scores         == Accumulate(Zeros(self.n_docs), self.score_matrix, query_indices)
        indexed_scores == Array([d \in DOMAIN scores |-> <<d - 1, scores[d]>>])
        k              == SelectCount(n, self.n_docs)
    IN  IF query_indices = <<>> THEN { [ok |-> TRUE, pairs |-> <<>>] }
        ELSE IF k = 0 \/ k - 1 >= Len(indexed_scores) THEN { Panic }
        ELSE { [ok |-> TRUE, pairs |-> SubSeq(indexed_scores, 1, k)] }

\* internal_top_n: the results the call can have.  With k = 0 the index k - 1
\* underflows: a checked build panics on the subtraction, an unchecked one asks
\* kth_by for position 2^64 - 1, which is past the end and panics there.
InternalTopN(self, query, n) ==
    LET query_indices  == QueryIndices(self.vocab, TokenizerPerformSimple(query))
        scores         == Accumulate(Zeros(self.n_docs), self.score_matrix, query_indices)
        indexed_scores == Array([d \in DOMAIN scores |-> <<d - 1, scores[d]>>])
        k              == SelectCount(n, self.n_docs)
    IN  IF query_indices = <<>> THEN { [ok |-> TRUE, pairs |-> <<>>] }
        ELSE IF k = 0 \/ k - 1 >= Len(indexed_scores) THEN { Panic }
        ELSE { [ok |-> TRUE, pairs |-> SubSeq(arranged, 1, k)] :
                    arranged \in KthBy(indexed_scores, k - 1) }

\* The results of the queries of a batch, one per query, aligned with the batch.
RECURSIVE BatchOutcomes(_, _, _)
BatchOutcomes(self, queries, n) ==
    IF queries = <<>> THEN { <<>> }
    ELSE { <<out>> \o rest : out \in InternalTopN(self, Head(queries), n),
                             rest \in BatchOutcomes(self, Tail(queries), n) }

\* A collect that keeps the results in the order the queries finished.
CollectAsFinished(done) ==
    IF \E j \in DOMAIN done : ~done[j].out.ok THEN [ok |-> FALSE, results |-> <<>>]
    ELSE [ok |-> TRUE, results |-> Array([i \in DOMAIN done |-> done[i].out.pairs])]

\* par_iter().map(..).collect() (lines 59-62): done lists (input position,
\* result) in the order the queries finished; the collected vector has each
\* result at its input position, and a panic of any query is the call's panic.
Collect(done) ==
    IF \E j \in DOMAIN done : ~done[j].out.ok THEN [ok |-> FALSE, results |-> <<>>]
    ELSE [ok |-> TRUE,
          results |-> Array([i \in DOMAIN done |->
                          done[CHOOSE j \in DOMAIN done : done[j].index = i].out.pairs])]

\* ------------------------------------------------------------------ state

VARIABLES
    k1, b, vocab, n_docs, score_matrix,  \* the Retriever's fields (the tokenizer holds no state)
    given,                               \* the (k1, b) the Retriever was constructed with
    texts,                               \* the corpus of the last index call that returned
    build,                               \* the locals of that call's build
    op,                                  \* the last operation called
    arg,                                 \* the arguments of the last query call
    ret                                  \* what the last call returned

vars == <<k1, b, vocab, n_docs, score_matrix, given, texts, build, op, arg, ret>>

Self == [k1 |-> k1, b |-> b, vocab |-> vocab, n_docs |-> n_docs, score_matrix |-> score_matrix]

NoArg == [n |-> 0]

Init ==
    \E p \in Params :
        /\ k1 = New(p.k1, p.b).k1
        /\ b = New(p.k1, p.b).b
        /\ vocab = New(p.k1, p.b).vocab
        /\ n_docs = New(p.k1, p.b).n_docs
        /\ score_matrix = New(p.k1, p.b).score_matrix
        /\ given = p
        /\ texts = <<>>
        /\ build = NoBuild
        /\ op = "new"
        /\ arg = NoArg
        /\ ret = [ok |-> TRUE]

\* What an index call leaves behind.
IndexReturns(res, t, tokenizer_ok) ==
    /\ k1' = res.self.k1
    /\ b' = res.self.b
    /\ vocab' = res.self.vocab
    /\ n_docs' = res.self.n_docs
    /\ score_matrix' = res.self.score_matrix
    /\ given' = given
    /\ texts' = IF tokenizer_ok THEN t ELSE texts
    /\ build' = IF tokenizer_ok THEN res.locals ELSE build
    /\ op' = "index"
    /\ arg' = NoArg
    /\ ret' = [ok |-> tokenizer_ok]

\* index(texts) when the tokenizer returns; ord is the order the HashMaps of
\* compute_frequencies iterate in.
Index ==
    \E t \in Corpora :
        \E ord \in HashOrders(TokenizerPerform(t).corpus) :
            \E res \in { InternalIndex(Self, t, ord, TRUE) } : IndexReturns(res, t, TRUE)

\* index(texts) when the tokenizer fails.
IndexTokenizerFails ==
    \E t \in Corpora :
        \E res \in { InternalIndex(Self, t, <<>>, FALSE) } : IndexReturns(res, t, FALSE)

\* top_n(query, n): takes &self.
TopN ==
    \E query \in Queries, n \in 0..MaxN :
        \E out \in InternalTopN(Self, query, n) :
            /\ op' = "top_n"
            /\ arg' = [query |-> query, n |-> n]
            /\ ret' = out
            /\ UNCHANGED <<k1, b, vocab, n_docs, score_matrix, given, texts, build>>

\* top_n_batched(queries, n): the queries finish in the order exec.
TopNBatched ==
    \E queries \in Batches, n \in 0..MaxN :
        \E exec \in Perms(DOMAIN queries), outs \in BatchOutcomes(Self, queries, n) :
            /\ op' = "top_n_batched"
            /\ arg' = [queries |-> queries, n |-> n]
            /\ ret' = Collect(Array([j \in DOMAIN exec |->
                                        [index |-> exec[j], out |-> outs[exec[j]]]]))
            /\ UNCHANGED <<k1, b, vocab, n_docs, score_matrix, given, texts, build>>

Next == Index \/ IndexTokenizerFails \/ TopN

Spec == Init /\ [][Next]_vars

NextBatch == Index \/ IndexTokenizerFails \/ TopNBatched

SpecBatch == Init /\ [][NextBatch]_vars

\* ------------------------------------------------------------ properties

\* The query has a token the current vocabulary holds.
InVocab(query) == \E j \in DOMAIN query : query[j] \in DOMAIN vocab

\* The entry the score matrix stores at (d, t); 0 when it stores none.
Entry(d, t) ==
    LET m  == score_matrix
        ps == { p \in (m.indptr[t + 1] + 1)..m.indptr[t + 2] : m.indices[p] = d }
    IN  IF ps = {} THEN 0 ELSE m.data[CHOOSE p \in ps : TRUE]

\* The sum of the entries of document d over the occurrences of in-vocabulary
\* terms in the query.
RECURSIVE DocScore(_, _)
DocScore(d, query) ==
    IF query = <<>> THEN 0
    ELSE (IF Head(query) \in DOMAIN vocab THEN Entry(d, vocab[Head(query)]) ELSE 0)
            + DocScore(d, Tail(query))

Tokens(text) == { text[j] : j \in DOMAIN text }

Returned(pairs) == { pairs[i][1] : i \in DOMAIN pairs }

\* The last call was top_n and it returned.
TopNReturned == op = "top_n" /\ ret.ok

\* C1: top_n(query, 0) returns the empty sequence and does not fail, for every
\* query, in every state construct and index calls reach.
C1_ZeroAsksForNothing ==
    op = "top_n" /\ arg.n = 0 => ret.ok /\ ret.pairs = <<>>

C3_Descending ==
    TopNReturned =>
        \A i \in 1..(Len(ret.pairs) - 1) : ret.pairs[i][2] >= ret.pairs[i + 1][2]

\* C3 as amended: the last returned pair has the least score of the returned
\* pairs; the order of the pairs before it is not fixed.
C3_LastIsLeast ==
    TopNReturned =>
        \A i \in DOMAIN ret.pairs : ret.pairs[i][2] >= ret.pairs[Len(ret.pairs)][2]

\* C3's case: three pairs returned, the first two not in descending order.
C3_Witness ==
    /\ TopNReturned /\ Len(ret.pairs) >= 3
    /\ ret.pairs[1][2] < ret.pairs[2][2]
    /\ ret.pairs[2][2] > ret.pairs[3][2]

\* C4: a query none of whose tokens is in the current vocabulary returns the
\* empty sequence, for every n, in every state.
C4_MissesReturnNothing ==
    op = "top_n" /\ ~InVocab(arg.query) => ret.ok /\ ret.pairs = <<>>

\* C4's case: documents are indexed, n >= 1, the query has tokens and all miss.
C4_Witness ==
    /\ op = "top_n" /\ n_docs >= 1 /\ arg.n >= 1
    /\ arg.query # <<>> /\ ~InVocab(arg.query)
    /\ ret.ok /\ ret.pairs = <<>>

\* C5: an index call that fails leaves vocabulary, N and score matrix (and k1, b)
\* as they were before the call.
C5_FailedIndexKeepsState ==
    [][op' = "index" /\ ~ret'.ok => Self' = Self]_vars

\* C5's case: an index call has failed on a Retriever that holds an index.
C5_Witness ==
    op = "index" /\ ~ret.ok /\ n_docs >= 1 /\ DOMAIN vocab # {}

\* C6: top_n_batched returns one result per query, the i-th one a result of
\* top_n(queries[i], n), whatever order the queries finish in, and leaves the
\* Retriever as it was.
C6_BatchedIsMappedTopN ==
    [][op' = "top_n_batched" =>
            /\ ret'.ok
            /\ Len(ret'.results) = Len(arg'.queries)
            /\ \A i \in DOMAIN arg'.queries :
                  [ok |-> TRUE, pairs |-> ret'.results[i]]
                      \in InternalTopN(Self, arg'.queries[i], arg'.n)
            /\ Self' = Self]_vars

\* top_n_batched fails exactly when top_n fails for one of its queries, and
\* otherwise is as C6 states.
BatchedIsMappedTopNOrFails ==
    [][op' = "top_n_batched" =>
            /\ ret'.ok <=> \A i \in DOMAIN arg'.queries :
                              Panic \notin InternalTopN(Self, arg'.queries[i], arg'.n)
            /\ ret'.ok =>
                  /\ Len(ret'.results) = Len(arg'.queries)
                  /\ \A i \in DOMAIN arg'.queries :
                        [ok |-> TRUE, pairs |-> ret'.results[i]]
                            \in InternalTopN(Self, arg'.queries[i], arg'.n)
            /\ Self' = Self]_vars

\* C7: after index(T) the vocabulary, N and score matrix are those a new
\* Retriever with the same (k1, b) builds from T, whatever was indexed before
\* and whatever order the HashMaps iterate in; k1 and b stay as constructed
\* through every index call and every query.
C7_IndexIsFullRebuild ==
    /\ op = "index" /\ ret.ok =>
            LET out == TokenizerPerform(texts)
            IN  Self = BuildIndex(New(given.k1, given.b), out,
                                  CHOOSE ord \in HashOrders(out.corpus) : TRUE).self
    /\ k1 = given.k1
    /\ b = given.b

\* C7's case: three documents are indexed, one of them with two distinct terms.
C7_Witness ==
    /\ op = "index" /\ ret.ok /\ n_docs = 3
    /\ \E d \in DOMAIN texts : Cardinality(Tokens(texts[d])) >= 2
    /\ \E d \in DOMAIN texts : Cardinality(Tokens(texts[d])) = 1

\* C8: for a query with an in-vocabulary term and n >= 1, top_n returns
\* k = min(n, N) pairs with k distinct DocIds, each score at least the accumulated
\* score of every document not returned.
C8_TopKSet ==
    op = "top_n" /\ InVocab(arg.query) /\ arg.n >= 1 =>
        /\ ret.ok
        /\ Len(ret.pairs) = Min(arg.n, n_docs)
        /\ Cardinality(Returned(ret.pairs)) = Min(arg.n, n_docs)
        /\ Returned(ret.pairs) \subseteq 0..(n_docs - 1)
        /\ \A i \in DOMAIN ret.pairs :
              \A d \in (0..(n_docs - 1)) \ Returned(ret.pairs) :
                  ret.pairs[i][2] >= DocScore(d, arg.query)

\* C8's case: fewer pairs than documents, and a document left out that scores
\* less than a returned one.
C8_Witness ==
    /\ TopNReturned /\ InVocab(arg.query)
    /\ Len(ret.pairs) >= 1 /\ Len(ret.pairs) < n_docs
    /\ \E i \in DOMAIN ret.pairs :
          \E d \in (0..(n_docs - 1)) \ Returned(ret.pairs) :
              ret.pairs[i][2] > DocScore(d, arg.query) /\ DocScore(d, arg.query) > 0

\* C9: the score top_n reports for a document is the sum of the matrix entries
\* (d, t) over the occurrences of in-vocabulary terms t in the query; a document
\* with none of the query's terms is reported with 0; top_n(q, N) reports every
\* document when q has an in-vocabulary term.
C9_ScoreIsSumOfEntries ==
    TopNReturned =>
        /\ \A i \in DOMAIN ret.pairs :
              /\ ret.pairs[i][2] = DocScore(ret.pairs[i][1], arg.query)
              /\ Tokens(texts[ret.pairs[i][1] + 1]) \cap Tokens(arg.query) = {}
                    => ret.pairs[i][2] = 0
        /\ InVocab(arg.query) /\ arg.n = n_docs =>
              Returned(ret.pairs) = 0..(n_docs - 1)

\* C9's case: top_n(q, N) with a term twice in q, a document scoring above 0 and
\* a document with none of the terms.
C9_Witness ==
    /\ TopNReturned /\ arg.n = n_docs /\ n_docs >= 2
    /\ \E i, j \in DOMAIN arg.query :
          i # j /\ arg.query[i] = arg.query[j] /\ arg.query[i] \in DOMAIN vocab
    /\ \E i \in DOMAIN ret.pairs : ret.pairs[i][2] > 0
    /\ \E i \in DOMAIN ret.pairs :
          Tokens(texts[ret.pairs[i][1] + 1]) \cap Tokens(arg.query) = {}

\* The sum over the terms of the number of documents holding the term.
RECURSIVE SumDf(_)
SumDf(corpus) ==
    IF corpus = <<>> THEN 0 ELSE Cardinality(Tokens(Head(corpus))) + SumDf(Tail(corpus))

\* C10: the score matrix stores sum-of-df entries; the triplet buffers are
\* allocated with that size, the write offset ends on it, and the buffers hold
\* that many different (d, t) cells.
C10_NnzIsSumOfDf ==
    /\ Len(score_matrix.data) = SumDf(texts)
    /\ Len(score_matrix.indices) = SumDf(texts)
    /\ build.size = SumDf(texts)
    /\ build.step = SumDf(texts)
    /\ Cardinality(build.cells) = SumDf(texts)
    /\ SumValues(build.doc_frequencies) = SumDf(texts)

\* C10's case: several documents, one of them with a term more than once.
C10_Witness ==
    /\ op = "index" /\ ret.ok /\ n_docs >= 2
    /\ \E d \in DOMAIN texts : Len(texts[d]) > Cardinality(Tokens(texts[d]))
    /\ build.size >= 3

====
